---- MODULE Spec2Model ----
(***************************************************************************)
(* Model of notebooks/301-tensorflow-training-openvino/                    *)
(* 301-tensorflow-training-openvino-pot.ipynb: the ClassificationDataLoader *)
(* and Accuracy classes and the POT optimization cells (steps 1-9).        *)
(*                                                                         *)
(* Three specifications share the variables:                               *)
(*   SpecLoader  the data loader over a bounded file system                *)
(*   SpecMetric  the Accuracy metric under reset/update/read calls         *)
(*   SpecDriver  the optimization cells, steps 1 to 9                      *)
(*   SpecCells   the run-inference cell and the benchmark cells            *)
(***************************************************************************)
EXTENDS Integers, Sequences, FiniteSets, TLC

VARIABLES
    fs,             \* the directories on disk: root name -> [subdirs, entries]
    loader,         \* the ClassificationDataLoader object (NoLoader before __init__)
    ret,            \* outcome of the last method call or read
    matches,        \* Accuracy._matches
    mlog,           \* history: size and correct predictions of each update() since the last reset()
    cleared,        \* history: predictions the last reset() discarded (-1: no reset yet)
    pc,             \* driver: the statement that runs next
    heap,           \* driver: model artifacts, object id -> content
    refs,           \* driver: notebook variables holding artifact ids and results
    pass,           \* history: the latest evaluation pass of the engine
    trace,          \* history: the driver steps completed, in order
    out,            \* driver: what was printed and persisted
    devices,        \* cells: ie.available_devices
    files,          \* cells: the paths (relative to the working directory) that exist
    cell,           \* cells: the cell that runs next
    shown,          \* cells: the benchmarks run and the lines printed, in order
    io              \* cells: the file checks, downloads and reads made, in order

loaderVars == <<fs, loader>>
metricVars == <<matches, mlog, cleared>>
driverVars == <<pc, heap, refs, pass, trace, out>>
cellVars == <<devices, files, cell, shown, io>>
vars == <<fs, loader, ret, matches, mlog, cleared, pc, heap, refs, pass, trace, out,
          devices, files, cell, shown, io>>

(***************************************************************************)
(* Bounds                                                                  *)
(***************************************************************************)
MaxFiles == 2       \* files listed under the two roots together
MaxSamples == 4     \* predictions recorded between two resets, over all update() calls
MaxBatch == 2       \* predictions in one update() call
MaxRuns == 2        \* times the run-inference cell is run

(***************************************************************************)
(* The file system                                                         *)
(***************************************************************************)
\* The directory the notebook downloads the flower photos to (a global).
data_dir == "flower_photos"
\* Another directory a loader can be constructed over.
other_dir == "calibration"
Roots == {data_dir, other_dir}

\* Directory names in ascending lexicographic (code point) order.
NameOrder == <<"calibration", "daisy", "flower_photos", "raw", "roses">>
Rank(n) == CHOOSE i \in 1..Len(NameOrder) : NameOrder[i] = n

\* Names an immediate subdirectory can have, and the one nested directory.
CategoryNames == {"daisy", "roses"}
NestedName == "raw"
Suffixes == {".jpg", ".png", ".txt"}

\* Where a file lies relative to its root: in the root itself, in an
\* immediate subdirectory, or one level deeper.
RelDirs == {<<>>} \cup {<<d>> : d \in CategoryNames} \cup {<<"daisy", NestedName>>}

\* A file: its directory below the root, its suffix, and whether cv2.imread
\* can decode it.  The flag is fixed where the file is never read: a file
\* that is no image, or an image outside the immediate subdirectories.
Entries == {e \in [dir : RelDirs, suffix : Suffixes, decodable : BOOLEAN] :
              /\ e.suffix = ".txt" => e.dir = <<>>
              /\ (e.suffix = ".txt" \/ Len(e.dir) # 1) => e.decodable}

SeqsUpTo(S, n) == UNION {[1..k -> S] : k \in 0..n}

Range(s) == {s[i] : i \in 1..Len(s)}

NoDup(s) == \A i, j \in 1..Len(s) : s[i] = s[j] => i = j

\* A directory tree: subdirs is the immediate subdirectories in the order
\* iterdir() yields them (arbitrary), entries the files in the order
\* glob("**/*") yields them.  A file below a subdirectory implies the
\* subdirectory.
Trees(n) == {t \in [subdirs : SeqsUpTo(CategoryNames, Cardinality(CategoryNames)),
                    entries : SeqsUpTo(Entries, n)] :
               /\ NoDup(t.subdirs)
               /\ \A i \in 1..Len(t.entries) :
                     t.entries[i].dir # <<>> => t.entries[i].dir[1] \in Range(t.subdirs)}

Jpg(d) == [dir |-> <<d>>, suffix |-> ".jpg", decodable |-> TRUE]

\* What the other directory holds: nothing, one category with one image,
\* or two categories with three images.
OtherTrees == {[subdirs |-> <<>>, entries |-> <<>>],
               [subdirs |-> <<"roses">>, entries |-> <<Jpg("roses")>>],
               [subdirs |-> <<"roses", "daisy">>,
                entries |-> <<Jpg("roses"), Jpg("daisy"), Jpg("roses")>>]}

FileSystems == {[r \in Roots |-> IF r = data_dir THEN t ELSE o] :
                  t \in Trees(MaxFiles), o \in OtherTrees}

\* A path: the root it starts from (absolute when abs), the directories
\* below the root and the file's position in the root's listing.
Path(root, e, i) == [abs |-> TRUE, root |-> root, dir |-> e.dir, file |-> i,
                     suffix |-> e.suffix]

\* Path.parent.name
parent_name(p) == IF p.dir = <<>> THEN p.root ELSE p.dir[Len(p.dir)]

\* os.path.join(a, b): an absolute b replaces a.
os_path_join(a, b) == IF b.abs THEN b
                      ELSE [b EXCEPT !.root = a, !.dir = <<b.root>> \o b.dir]

\* cv2.imread: the decoded image, or None for a file that is missing or
\* cannot be decoded.
None == <<"None">>
imread(p) ==
    IF /\ p.abs
       /\ p.root \in Roots
       /\ p.file \in 1..Len(fs[p.root].entries)
       /\ fs[p.root].entries[p.file].dir = p.dir
       /\ fs[p.root].entries[p.file].decodable
    THEN <<"image", p.root, p.file>>
    ELSE None

(***************************************************************************)
(* Results of calls                                                        *)
(***************************************************************************)
Ok(v) == [kind |-> "ok", val |-> v]
Raise(e) == [kind |-> e, val |-> <<>>]
Call(op, arg, res) == [op |-> op, arg |-> arg, res |-> res]
NoRet == Call("none", <<>>, Ok(<<>>))

(***************************************************************************)
(* ClassificationDataLoader                                                *)
(***************************************************************************)
\* Path.glob("**/*"): every file below the root, at any depth.
glob(root) == [i \in 1..Len(fs[root].entries) |-> Path(root, fs[root].entries[i], i)]

\* [item.name for item in Path(root).iterdir() if item.is_dir()]
iterdir_dirs(root) == fs[root].subdirs

\* p.suffix in (".png", ".jpg")
IsImageSuffix(p) == p.suffix \in {".png", ".jpg"}

\* sorted(): insertion sort by code point order.
RECURSIVE InsertSorted(_, _)
InsertSorted(x, s) ==
    IF s = <<>> THEN <<x>>
    ELSE IF Rank(x) <= Rank(Head(s)) THEN <<x>> \o s
    ELSE <<Head(s)>> \o InsertSorted(x, Tail(s))

RECURSIVE sorted(_)
sorted(s) == IF s = <<>> THEN <<>> ELSE InsertSorted(Head(s), sorted(Tail(s)))

\* list.index(x): 0-based position of the first occurrence (x is in s).
list_index(s, x) == (CHOOSE i \in 1..Len(s) : s[i] = x /\ \A j \in 1..(i - 1) : s[j] # x) - 1

NoLoader == [built |-> FALSE, data_source |-> data_dir, dataset |-> <<>>,
             class_names |-> <<>>]

\* ClassificationDataLoader.__init__(data_source): the samples and the class
\* names are read from the global data_dir.
ClassificationDataLoader(data_source) ==
    [built |-> TRUE,
     data_source |-> data_source,
     dataset |-> SelectSeq(glob(data_dir), IsImageSuffix),
     class_names |-> sorted(iterdir_dirs(data_dir))]

\* ClassificationDataLoader.__len__
__len__(self) == Len(self.dataset)

\* ClassificationDataLoader._read_image(filepath): None[:, :, (2, 1, 0)]
\* raises TypeError; otherwise the image in RGB order, 180x180, float32.
_read_image(self, index) ==
    LET image == imread(os_path_join(self.data_source, index))
    IN IF image = None THEN Raise("TypeError")
       ELSE Ok(<<"rgb_180x180_float32", image>>)

\* __getitem__ with the bound checked against len(self) - 1.
getitem_bound_minus_one(self, index) ==
    IF index >= __len__(self) - 1 THEN Raise("IndexError")
    ELSE IF index < 0 - Len(self.dataset) THEN Raise("IndexError")
    ELSE LET filepath == self.dataset[IF index >= 0 THEN index + 1
                                      ELSE Len(self.dataset) + index + 1]
         IN IF parent_name(filepath) \notin Range(self.class_names)
            THEN Raise("ValueError")
            ELSE LET annotation == <<index, list_index(self.class_names, parent_name(filepath))>>
                     image == _read_image(self, filepath)
                 IN IF image.kind # "ok" THEN image
                    ELSE Ok(<<annotation, image.val>>)

\* ClassificationDataLoader.__getitem__(index).  A Python list takes the
\* indices -len..len-1 and raises IndexError outside them; list.index raises
\* ValueError for a name that is not in the list.
__getitem__(self, index) ==
    IF index >= __len__(self) THEN Raise("IndexError")
    ELSE IF index < 0 - Len(self.dataset) THEN Raise("IndexError")
    ELSE LET filepath == self.dataset[IF index >= 0 THEN index + 1
                                      ELSE Len(self.dataset) + index + 1]
         IN IF parent_name(filepath) \notin Range(self.class_names)
            THEN Raise("ValueError")
            ELSE LET annotation == <<index, list_index(self.class_names, parent_name(filepath))>>
                     image == _read_image(self, filepath)
                 IN IF image.kind # "ok" THEN image
                    ELSE Ok(<<annotation, image.val>>)

\* __getitem__ taking the sample it returns out of the list.
getitem_consumes(self, index) ==
    IF index >= 0 /\ index < Len(self.dataset)
    THEN [self EXCEPT !.dataset = SubSeq(@, 1, index) \o SubSeq(@, index + 2, Len(@))]
    ELSE self

\* The object after __len__, __getitem__ or _read_image: none of them
\* assigns an attribute of self.
after_read(self, index) == self

\* Indices a caller may ask for.
Indices == (0 - (MaxFiles + 1))..(MaxFiles + 1)

(***************************************************************************)
(* Accuracy                                                                *)
(***************************************************************************)
\* Class labels and the scores a model output holds for them.
Labels == {0, 1}
Scores == {0, 1}
Rows == [Labels -> Scores]

\* What update() is given: output[0] is one row of scores per prediction
\* of the batch, target one label per prediction.
Outputs(b) == {<<rows>> : rows \in [1..b -> Rows]}
Targets(b) == [1..b -> Labels]

\* np.argmax over one row: the first index of the largest score.
argmax(row) == CHOOSE k \in Labels :
                  /\ \A j \in Labels : row[j] <= row[k]
                  /\ \A j \in Labels : j < k => row[j] < row[k]

RECURSIVE SumSeq(_)
SumSeq(s) == IF s = <<>> THEN 0 ELSE Head(s) + SumSeq(Tail(s))

\* np.count_nonzero over a list of equally long boolean arrays: the number
\* of True elements in all of them.
count_nonzero(m) ==
    SumSeq([i \in 1..Len(m) |-> Cardinality({b \in 1..Len(m[i]) : m[i][b]})])

\* Arrays of different lengths do not form one array.
Ragged(m) == \E i, j \in 1..Len(m) : Len(m[i]) # Len(m[j])

metric_name == "accuracy"

\* Accuracy.__init__: self._matches = []
Accuracy == <<>>

\* value reading the first entry.
value_first(self) == IF self = <<>> THEN Raise("IndexError")
                     ELSE Ok(<<metric_name, self[1]>>)

\* Accuracy.value: self._matches[-1]
value(self) == IF self = <<>> THEN Raise("IndexError")
               ELSE Ok(<<metric_name, self[Len(self)]>>)

\* avg_value that answers 0.0 for an empty list.
avg_value_zero_when_empty(self) ==
    IF Ragged(self) THEN Raise("ValueError")
    ELSE IF Len(self) = 0 THEN Ok(<<metric_name, <<0, 1>>>>)
    ELSE Ok(<<metric_name, <<count_nonzero(self), Len(self)>>>>)

\* Accuracy.avg_value: count_nonzero(_matches) / len(_matches), as the
\* fraction <<numerator, denominator>>.
avg_value(self) ==
    IF Ragged(self) THEN Raise("ValueError")
    ELSE IF Len(self) = 0 THEN Raise("ZeroDivisionError")
    ELSE Ok(<<metric_name, <<count_nonzero(self), Len(self)>>>>)

\* update that records a mismatch as a match.
update_inverted(self, output, target) ==
    LET predict == [b \in 1..Len(output[1]) |-> argmax(output[1][b])]
        match == [b \in 1..Len(predict) |-> predict[b] # target[b]]
    IN Append(self, match)

\* Accuracy.update(output, target)
update(self, output, target) ==
    LET predict == [b \in 1..Len(output[1]) |-> argmax(output[1][b])]
        match == [b \in 1..Len(predict) |-> predict[b] = target[b]]
    IN Append(self, match)

\* reset that leaves the list as it is.
reset_noop(self) == self

\* reset that keeps the latest entry.
reset_keeps_last(self) == IF self = <<>> THEN <<>> ELSE <<self[Len(self)]>>

\* Accuracy.reset
reset(self) == <<>>

\* get_attributes whose direction depends on what is recorded.
get_attributes_by_state(self) ==
    Ok(<<metric_name, IF self = <<>> THEN "higher-worse" ELSE "higher-better", "accuracy">>)

\* Accuracy.get_attributes: {self._name: {"direction": ..., "type": ...}}
\* as <<name, direction, type>>.
get_attributes(self) == Ok(<<metric_name, "higher-better", "accuracy">>)

\* History: the number of predictions of one update() that name the target,
\* the target's score being the largest and no earlier label sharing it.
Hits(output, target) ==
    Cardinality({b \in 1..Len(target) :
                   /\ \A j \in Labels : output[1][b][j] <= output[1][b][target[b]]
                   /\ \A j \in Labels : j < target[b] => output[1][b][j] < output[1][b][target[b]]})

Recorded(m) == SumSeq([i \in 1..Len(m) |-> Len(m[i])])

MetricIdle == /\ matches = Accuracy
              /\ mlog = <<>>
              /\ cleared = 0 - 1

LoaderIdle == /\ fs \in {f \in FileSystems : f[data_dir].entries = <<>> /\ f[data_dir].subdirs = <<>>
                                             /\ f[other_dir].entries = <<>>}
              /\ loader = NoLoader

NoResult == [kind |-> "unset", items |-> <<>>]

NoRefs == [model |-> 0, original_model |-> 0, compressed_model |-> 0,
           compressed_model_xml |-> "",
           original_metric_results |-> NoResult,
           quantized_metric_results |-> NoResult,
           error |-> ""]

NoPass == [name |-> "none", content |-> "", log |-> <<>>]

NoOut == [printed |-> <<>>, saved |-> "", run_calls |-> 0, run_raised |-> ""]

DriverIdle == /\ pc = "idle"
              /\ heap = <<>>
              /\ refs = NoRefs
              /\ pass = NoPass
              /\ trace = <<>>
              /\ out = NoOut

CellsIdle == /\ devices = {"CPU"}
             /\ files = {}
             /\ cell = "idle"
             /\ shown = <<>>
             /\ io = <<>>

(***************************************************************************)
(* SpecLoader: construction and calls of the data loader                   *)
(***************************************************************************)
InitLoader == /\ fs \in FileSystems
              /\ loader = NoLoader
              /\ ret = NoRet
              /\ MetricIdle
              /\ DriverIdle
              /\ CellsIdle

\* loader = ClassificationDataLoader(data_source=src)
Construct(src) == /\ loader' = ClassificationDataLoader(src)
                  /\ ret' = Call("__init__", <<src>>, Ok(<<>>))
                  /\ UNCHANGED <<cellVars, fs, metricVars, driverVars>>

\* len(loader)
CallLen == /\ loader.built
           /\ ret' = Call("__len__", <<>>, Ok(<<__len__(loader)>>))
           /\ loader' = after_read(loader, 0)
           /\ UNCHANGED <<cellVars, fs, metricVars, driverVars>>

\* loader[index]
CallGetItem(index) == /\ loader.built
                      /\ ret' = Call("__getitem__", <<index>>, __getitem__(loader, index))
                      /\ loader' = after_read(loader, index)
                      /\ UNCHANGED <<cellVars, fs, metricVars, driverVars>>

NextLoader == \/ \E src \in Roots : Construct(src)
              \/ CallLen
              \/ \E index \in Indices : CallGetItem(index)

SpecLoader == InitLoader /\ [][NextLoader]_vars

(***************************************************************************)
(* SpecMetric: calls of one Accuracy object                                *)
(***************************************************************************)
InitMetric == /\ LoaderIdle
              /\ ret = NoRet
              /\ MetricIdle
              /\ DriverIdle
              /\ CellsIdle

\* metric.reset()
CallReset == /\ matches' = reset(matches)
             /\ mlog' = <<>>
             /\ cleared' = Recorded(matches)
             /\ ret' = Call("reset", <<>>, Ok(<<>>))
             /\ UNCHANGED <<cellVars, loaderVars, driverVars>>

\* metric.update(output, target) with a batch of b predictions
CallUpdate(output, target) ==
    /\ Recorded(matches) + Len(target) <= MaxSamples
    /\ matches' = update(matches, output, target)
    /\ mlog' = Append(mlog, [size |-> Len(target), hits |-> Hits(output, target)])
    /\ ret' = Call("update", <<>>, Ok(<<>>))
    /\ UNCHANGED <<cellVars, loaderVars, cleared, driverVars>>

\* metric.value
ReadValue == /\ ret' = Call("value", <<>>, value(matches))
             /\ UNCHANGED <<cellVars, loaderVars, metricVars, driverVars>>

\* metric.avg_value
ReadAvgValue == /\ ret' = Call("avg_value", <<>>, avg_value(matches))
                /\ UNCHANGED <<cellVars, loaderVars, metricVars, driverVars>>

\* metric.get_attributes()
CallGetAttributes == /\ ret' = Call("get_attributes", <<>>, get_attributes(matches))
                     /\ UNCHANGED <<cellVars, loaderVars, metricVars, driverVars>>

NextMetric == \/ CallReset
              \/ \E b \in 1..MaxBatch : \E output \in Outputs(b), target \in Targets(b) :
                    CallUpdate(output, target)
              \/ ReadValue
              \/ ReadAvgValue
              \/ CallGetAttributes

SpecMetric == InitMetric /\ [][NextMetric]_vars

(***************************************************************************)
(* SpecDriver: the POT optimization cells, steps 1 to 9                    *)
(***************************************************************************)
\* Contents of a model artifact: as loaded, quantized, and quantized with
\* compressed weights.
LoadedContent == "fp32"
QuantizedContent == "int8"
CompressedContent == "int8_compressed_weights"
SavedPath == "model/optimized/flower.xml"

\* Failures the external quantization algorithm can raise.
RunErrors == {"RuntimeError"}

\* The statements of the two cells in source order.
Statements == <<"load_model", "deepcopy", "data_loader", "metric", "engine",
                "pipeline", "run", "compress", "save", "evaluate_original",
                "print_original", "evaluate_quantized", "print_quantized">>

StatementIndex(p) == CHOOSE i \in 1..Len(Statements) : Statements[i] = p

\* The order with the weights compressed after the model is saved.
StepAfter_save_first(p) ==
    CASE p = "run" -> "save"
      [] p = "save" -> "compress"
      [] p = "compress" -> "evaluate_original"
      [] OTHER -> IF StatementIndex(p) = Len(Statements) THEN "done"
                  ELSE Statements[StatementIndex(p) + 1]

\* The statement that runs after statement p has completed.
StepAfter(p) == IF StatementIndex(p) = Len(Statements) THEN "done"
                ELSE Statements[StatementIndex(p) + 1]

\* A failure that is swallowed and the run call made again.
Uncaught_retry(e) == [pc |-> "run", error |-> ""]

\* An exception no statement catches ends the run with that exception.
Uncaught(e) == [pc |-> "failed", error |-> e]

\* An assignment in place of the copy: both names hold one artifact.
deepcopy_alias(h, id) == [heap |-> h, id |-> id]

\* copy.deepcopy(model): a new artifact with the same content.
deepcopy(h, id) == [heap |-> Append(h, h[id]), id |-> Len(h) + 1]

\* A test for None alone: the empty dict passes.
Truthy_not_none(r) == r.kind = "dict"

\* bool(results): None and the empty dict are false.
Truthy(r) == r.kind = "dict" /\ r.items # <<>>

\* The engine feeding samples i, i+1, ... of the data loader to the model,
\* one per call; outs[i+1] is the model's output for sample i.  With upd the
\* metric is updated with each output.  A failing sample ends the pass.
RECURSIVE feed(_, _, _, _, _)
feed(ld, m, outs, i, upd) ==
    IF i >= __len__(ld) THEN [kind |-> "ok", matches |-> m, log |-> <<>>]
    ELSE LET item == __getitem__(ld, i)
         IN IF item.kind # "ok" THEN [kind |-> item.kind, matches |-> m, log |-> <<>>]
            ELSE LET target == <<item.val[1][2]>>
                     rest == feed(ld, IF upd THEN update(m, outs[i + 1], target) ELSE m,
                                  outs, i + 1, upd)
                 IN [rest EXCEPT !.log = <<[size |-> 1, hits |-> Hits(outs[i + 1], target)]>> \o @]

\* One evaluation pass of the engine: the metric is reset, updated once per
\* sample, and its average read when the pass is over.
evaluation_pass(ld, m, outs) ==
    LET fed == feed(ld, reset(m), outs, 0, TRUE)
        avg == avg_value(fed.matches)
    IN [kind |-> IF fed.kind # "ok" THEN fed.kind ELSE avg.kind,
        matches |-> fed.matches,
        log |-> fed.log,
        metrics |-> IF fed.kind = "ok" /\ avg.kind = "ok"
                    THEN [kind |-> "dict", items |-> avg.val] ELSE NoResult]

\* What the external evaluate() hands back: the metric's results, or None or
\* an empty dict when it reports no metric.
Returned(ext, metrics) == CASE ext = "metrics" -> metrics
                            [] ext = "None" -> [kind |-> "None", items |-> <<>>]
                            [] ext = "empty" -> [kind |-> "dict", items |-> <<>>]

Advance == /\ pc' = StepAfter(pc)
           /\ trace' = Append(trace, pc)

Fail(e) == /\ pc' = Uncaught(e).pc
           /\ refs' = [refs EXCEPT !.error = Uncaught(e).error]
           /\ trace' = trace

\* Outputs the model gives in the driver's passes: all of the score on one
\* label.
OneHot == {<<<<[j \in Labels |-> IF j = k THEN 1 ELSE 0]>>>> : k \in Labels}

\* File systems the driver runs over: the other directory is empty and the
\* data directory holds .jpg files only.
DriverFileSystems == {f \in FileSystems :
                        /\ f[other_dir].subdirs = <<>>
                        /\ \A i \in 1..Len(f[data_dir].entries) :
                              f[data_dir].entries[i].suffix = ".jpg"}

InitDriver == /\ fs \in DriverFileSystems
              /\ loader = NoLoader
              /\ ret = NoRet
              /\ MetricIdle
              /\ pc = "load_model"
              /\ heap = <<>>
              /\ refs = NoRefs
              /\ pass = NoPass
              /\ trace = <<>>
              /\ out = NoOut
              /\ CellsIdle

\* Step 1: model = load_model(model_config=model_config)
Step1_LoadModel ==
    /\ pc = "load_model"
    /\ heap' = Append(heap, LoadedContent)
    /\ refs' = [refs EXCEPT !.model = Len(heap) + 1]
    /\ Advance
    /\ UNCHANGED <<cellVars, loaderVars, ret, metricVars, pass, out>>

\* Step 1: original_model = copy.deepcopy(model)
Step1_DeepCopy ==
    /\ pc = "deepcopy"
    /\ heap' = deepcopy(heap, refs.model).heap
    /\ refs' = [refs EXCEPT !.original_model = deepcopy(heap, refs.model).id]
    /\ Advance
    /\ UNCHANGED <<cellVars, loaderVars, ret, metricVars, pass, out>>

\* Step 2: data_loader = ClassificationDataLoader(data_source=data_dir)
Step2_DataLoader ==
    /\ pc = "data_loader"
    /\ loader' = ClassificationDataLoader(data_dir)
    /\ Advance
    /\ UNCHANGED <<cellVars, fs, ret, metricVars, heap, refs, pass, out>>

\* Step 3: metric = Accuracy()
Step3_Metric ==
    /\ pc = "metric"
    /\ matches' = Accuracy
    /\ mlog' = <<>>
    /\ cleared' = 0 - 1
    /\ Advance
    /\ UNCHANGED <<cellVars, loaderVars, ret, heap, refs, pass, out>>

\* Step 4: engine = IEEngine(config, data_loader, metric)
Step4_Engine ==
    /\ pc = "engine"
    /\ Advance
    /\ UNCHANGED <<cellVars, loaderVars, ret, metricVars, heap, refs, pass, out>>

\* Step 5: pipeline = create_pipeline(algo_config=algorithms, engine=engine)
Step5_Pipeline ==
    /\ pc = "pipeline"
    /\ Advance
    /\ UNCHANGED <<cellVars, loaderVars, ret, metricVars, heap, refs, pass, out>>

\* Step 6: compressed_model = pipeline.run(model=model).  The algorithm
\* reads the calibration samples through the engine, which may update the
\* metric with them; it then fails, or quantizes the artifact it was given,
\* in place or as a new artifact.
Step6_Run ==
    /\ pc = "run"
    /\ \E upd \in BOOLEAN : \E outs \in [1..__len__(loader) -> OneHot] :
         LET fed == feed(loader, matches, outs, 0, upd)
             called == [out EXCEPT !.run_calls = @ + 1]
         IN /\ matches' = fed.matches
            /\ mlog' = IF upd THEN mlog \o fed.log ELSE mlog
            /\ pass' = pass
            /\ \/ /\ fed.kind # "ok"
                  /\ Fail(fed.kind)
                  /\ out' = [called EXCEPT !.run_raised = fed.kind]
                  /\ heap' = heap
               \/ /\ fed.kind = "ok"
                  /\ \E e \in RunErrors :
                        /\ Fail(e)
                        /\ out' = [called EXCEPT !.run_raised = e]
                  /\ heap' = heap
               \/ /\ fed.kind = "ok"
                  /\ heap' = [heap EXCEPT ![refs.model] = QuantizedContent]
                  /\ refs' = [refs EXCEPT !.compressed_model = refs.model]
                  /\ out' = called
                  /\ Advance
               \/ /\ fed.kind = "ok"
                  /\ \E touched \in {heap[refs.model], QuantizedContent} :
                        heap' = Append([heap EXCEPT ![refs.model] = touched], QuantizedContent)
                  /\ refs' = [refs EXCEPT !.compressed_model = Len(heap) + 1]
                  /\ out' = called
                  /\ Advance
    /\ UNCHANGED <<cellVars, loaderVars, ret, cleared>>

\* Step 7: compress_model_weights(model=compressed_model), in place
Step7_Compress ==
    /\ pc = "compress"
    /\ heap' = [heap EXCEPT ![refs.compressed_model] = CompressedContent]
    /\ Advance
    /\ UNCHANGED <<cellVars, loaderVars, ret, metricVars, refs, pass, out>>

\* Step 8: compressed_model_paths = save_model(...), compressed_model_xml,
\* print of the path
Step8_Save ==
    /\ pc = "save"
    /\ refs' = [refs EXCEPT !.compressed_model_xml = SavedPath]
    /\ out' = [out EXCEPT !.saved = heap[refs.compressed_model],
                          !.printed = Append(@, "quantized_path")]
    /\ Advance
    /\ UNCHANGED <<cellVars, loaderVars, ret, metricVars, heap, pass>>

\* pipeline.evaluate(model) of step 9 for the artifact with id `model`
Evaluate(name, model, outs, ext) ==
    LET res == evaluation_pass(loader, matches, outs)
    IN /\ matches' = res.matches
       /\ mlog' = res.log
       /\ cleared' = Recorded(matches)
       /\ pass' = [name |-> name, content |-> heap[model], log |-> res.log]
       /\ IF res.kind # "ok" THEN Fail(res.kind)
          ELSE /\ refs' = [refs EXCEPT ![name] = Returned(ext, res.metrics)]
               /\ Advance

\* Step 9: original_metric_results = pipeline.evaluate(original_model)
Step9_EvaluateOriginal ==
    /\ pc = "evaluate_original"
    /\ \E outs \in [1..__len__(loader) -> OneHot] : \E ext \in {"metrics", "None", "empty"} :
          Evaluate("original_metric_results", refs.original_model, outs, ext)
    /\ UNCHANGED <<cellVars, loaderVars, ret, heap, out>>

\* Step 9: quantized_metric_results = pipeline.evaluate(compressed_model)
Step9_EvaluateQuantized ==
    /\ pc = "evaluate_quantized"
    /\ \E outs \in [1..__len__(loader) -> OneHot] : \E ext \in {"metrics", "None", "empty"} :
          Evaluate("quantized_metric_results", refs.compressed_model, outs, ext)
    /\ UNCHANGED <<cellVars, loaderVars, ret, heap, out>>

\* if results: print(f"Accuracy ...: {next(iter(results.values())):.5f}")
PrintIf(results, line) ==
    IF ~Truthy(results)
    THEN /\ Advance
         /\ UNCHANGED <<refs, out>>
    ELSE IF results.kind # "dict"
    THEN /\ Fail("AttributeError")
         /\ out' = out
    ELSE IF results.items = <<>>
    THEN /\ Fail("StopIteration")
         /\ out' = out
    ELSE /\ out' = [out EXCEPT !.printed = Append(@, line)]
         /\ refs' = refs
         /\ Advance

\* Step 9: if original_metric_results: print(...)
Step9_PrintOriginal ==
    /\ pc = "print_original"
    /\ PrintIf(refs.original_metric_results, "accuracy_original")
    /\ UNCHANGED <<cellVars, loaderVars, ret, metricVars, heap, pass>>

\* Step 9: if quantized_metric_results: print(...)
Step9_PrintQuantized ==
    /\ pc = "print_quantized"
    /\ PrintIf(refs.quantized_metric_results, "accuracy_quantized")
    /\ UNCHANGED <<cellVars, loaderVars, ret, metricVars, heap, pass>>

NextDriver == \/ Step1_LoadModel
              \/ Step1_DeepCopy
              \/ Step2_DataLoader
              \/ Step3_Metric
              \/ Step4_Engine
              \/ Step5_Pipeline
              \/ Step6_Run
              \/ Step7_Compress
              \/ Step8_Save
              \/ Step9_EvaluateOriginal
              \/ Step9_PrintOriginal
              \/ Step9_EvaluateQuantized
              \/ Step9_PrintQuantized

SpecDriver == InitDriver /\ [][NextDriver]_vars

(***************************************************************************)
(* SpecCells: the run-inference cell and the benchmark cells               *)
(***************************************************************************)
\* Paths are the sequences of their components, relative to the working
\* directory.  Path(name) and Path(a)/Path(b):
PathOf(name) == <<name>>
Slash(a, b) == a \o b

directory == "output"
inp_file_name == "A_Close_Up_Photo_of_a_Dandelion.jpg"
file_path == Slash(PathOf(directory), PathOf(inp_file_name))

\* Path.exists()
exists(p) == p \in files

\* The paths the sample image can be at before the notebook runs.
ImagePaths == {PathOf(inp_file_name), file_path}

\* What ie.available_devices can list: the CPU alone, with one GPU, or with
\* two GPUs (which are listed as GPU.0 and GPU.1).
DeviceSets == {{"CPU"}, {"CPU", "GPU"}, {"CPU", "GPU.0", "GPU.1"}}

\* download_file(url, filename, directory=directory) of notebook_utils: the
\* file is at directory/filename afterwards, or the download raises.
download_file(fls, filename, dir) ==
    {[kind |-> "ok", files |-> fls \cup {Slash(PathOf(dir), PathOf(filename))}],
     [kind |-> "ConnectionError", files |-> fls]}

\* Image.open(imagePath) in pre_process_image
Image_open(fls, imagePath) == IF imagePath \in fls THEN "ok" ELSE "FileNotFoundError"

\* The code cells after step 9, in source order.
Cells == <<"run_inference", "device_info", "benchmark_cpu_original",
           "benchmark_cpu_quantized", "benchmark_multi_original",
           "benchmark_multi_quantized", "device_info_ir",
           "benchmark_ir_cpu_original", "benchmark_ir_cpu_quantized",
           "benchmark_ir_multi_original", "benchmark_ir_multi_quantized">>

CellAfter(c) == LET i == CHOOSE k \in 1..Len(Cells) : Cells[k] = c
                IN IF i = Len(Cells) THEN "done" ELSE Cells[i + 1]

\* A guard that holds whenever any device is available.
gpu_available_any(devs) == devs # {}

\* "GPU" in ie.available_devices
gpu_available(devs) == "GPU" \in devs

Benchmark(c, model, device) == [cell |-> c, kind |-> "benchmark", model |-> model,
                                device |-> device, text |-> ""]
Printed_line(c, text) == [cell |-> c, kind |-> "print", model |-> "", device |-> "",
                          text |-> text]
FileOp(kind, path, present) == [kind |-> kind, path |-> path, present |-> present]

\* Runs of the run-inference cell so far.
Runs == Cardinality({i \in 1..Len(io) : io[i].kind = "guard"})

InitCells == /\ LoaderIdle
             /\ ret = NoRet
             /\ MetricIdle
             /\ DriverIdle
             /\ devices \in DeviceSets
             /\ files \in SUBSET ImagePaths
             /\ cell = "run_inference"
             /\ shown = <<>>
             /\ io = <<>>

\* The run-inference cell from the download guard on: the image is
\* downloaded if Path(inp_file_name) does not exist, then file_path is
\* opened by pre_process_image; the results are printed.
InferenceCell ==
    LET guard == FileOp("guard", PathOf(inp_file_name), exists(PathOf(inp_file_name)))
        read(fls) == FileOp("read", file_path, file_path \in fls)
        finish(fls, ops) ==
            /\ files' = fls
            /\ io' = io \o ops \o <<read(fls)>>
            /\ IF Image_open(fls, file_path) = "ok"
               THEN /\ cell' = "device_info"
                    /\ shown' = Append(shown, Printed_line("run_inference", "most likely belongs to"))
               ELSE /\ cell' = "failed"
                    /\ shown' = shown
    IN IF ~exists(PathOf(inp_file_name))
       THEN \E d \in download_file(files, inp_file_name, directory) :
               LET call == FileOp("download", file_path, exists(file_path))
               IN IF d.kind = "ok" THEN finish(d.files, <<guard, call>>)
                  ELSE /\ files' = d.files
                       /\ io' = io \o <<guard, call>>
                       /\ cell' = "failed"
                       /\ shown' = shown
       ELSE finish(files, <<guard>>)

\* The run-inference cell, run in its turn.
RunInference ==
    /\ cell = "run_inference"
    /\ InferenceCell
    /\ UNCHANGED <<loaderVars, ret, metricVars, driverVars, devices>>

\* The run-inference cell run once more before the next cell.
RerunInference ==
    /\ cell = "device_info"
    /\ Runs < MaxRuns
    /\ InferenceCell
    /\ UNCHANGED <<loaderVars, ret, metricVars, driverVars, devices>>

\* print the available devices on this system
DeviceInfo(c) ==
    /\ cell = c
    /\ shown' = shown \o <<Printed_line(c, "CPU")>>
                  \o (IF gpu_available(devices) THEN <<Printed_line(c, "GPU")>> ELSE <<>>)
    /\ cell' = CellAfter(c)
    /\ UNCHANGED <<loaderVars, ret, metricVars, driverVars, devices, files, io>>

\* A CPU benchmark cell; with sx the output is captured and its last lines
\* printed.
CpuBenchmark(c, model, sx) ==
    /\ cell = c
    /\ shown' = shown \o <<Benchmark(c, model, "CPU")>>
                  \o (IF sx THEN <<Printed_line(c, "benchmark_result")>> ELSE <<>>)
    /\ cell' = CellAfter(c)
    /\ UNCHANGED <<loaderVars, ret, metricVars, driverVars, devices, files, io>>

\* A MULTI:CPU,GPU benchmark cell: the benchmark if "GPU" is available,
\* else the message.
MultiBenchmark(c, model, sx, message) ==
    /\ cell = c
    /\ shown' = IF gpu_available(devices)
                THEN shown \o <<Benchmark(c, model, "MULTI:CPU,GPU")>>
                       \o (IF sx THEN <<Printed_line(c, "benchmark_result")>> ELSE <<>>)
                ELSE Append(shown, Printed_line(c, message))
    /\ cell' = CellAfter(c)
    /\ UNCHANGED <<loaderVars, ret, metricVars, driverVars, devices, files, io>>

DeviceInformation == DeviceInfo("device_info")

\* ! benchmark_app -m $model_xml -d CPU -t 15 -api async
BenchmarkCpuOriginal == CpuBenchmark("benchmark_cpu_original", "model_xml", FALSE)

\* ! benchmark_app -m $compressed_model_xml -d CPU -t 15 -api async
BenchmarkCpuQuantized == CpuBenchmark("benchmark_cpu_quantized", "compressed_model_xml", FALSE)

\* Original model - MULTI:CPU,GPU
BenchmarkMultiOriginal ==
    MultiBenchmark("benchmark_multi_original", "model_xml", FALSE,
                   "A supported integrated GPU is not available on this system.")

\* Quantized model - MULTI:CPU,GPU
BenchmarkMultiQuantized ==
    MultiBenchmark("benchmark_multi_quantized", "compressed_model_xml", FALSE,
                   "A supported integrated GPU is not available on this system.")

DeviceInformationIR == DeviceInfo("device_info_ir")

\* benchmark_output = %sx benchmark_app -m $model_xml -t 15 -api async
BenchmarkIRCpuOriginal == CpuBenchmark("benchmark_ir_cpu_original", "model_xml", TRUE)

\* benchmark_output = %sx benchmark_app -m $compressed_model_xml -t 15 -api async
BenchmarkIRCpuQuantized == CpuBenchmark("benchmark_ir_cpu_quantized", "compressed_model_xml", TRUE)

\* Original IR model - MULTI:CPU,GPU
BenchmarkIRMultiOriginal ==
    MultiBenchmark("benchmark_ir_multi_original", "model_xml", TRUE,
                   "An integrated GPU is not available on this system.")

\* Quantized IR model - MULTI:CPU,GPU
BenchmarkIRMultiQuantized ==
    MultiBenchmark("benchmark_ir_multi_quantized", "compressed_model_xml", TRUE,
                   "An integrated GPU is not available on this system.")

NextCells == \/ RunInference
             \/ RerunInference
             \/ DeviceInformation
             \/ BenchmarkCpuOriginal
             \/ BenchmarkCpuQuantized
             \/ BenchmarkMultiOriginal
             \/ BenchmarkMultiQuantized
             \/ DeviceInformationIR
             \/ BenchmarkIRCpuOriginal
             \/ BenchmarkIRCpuQuantized
             \/ BenchmarkIRMultiOriginal
             \/ BenchmarkIRMultiQuantized

SpecCells == InitCells /\ [][NextCells]_vars

(***************************************************************************)
(* Claims about the data loader (SpecLoader)                               *)
(***************************************************************************)
\* The file behind sample i (0-based) of the loader, as it is on disk.
FileOfSample(i) == fs[loader.dataset[i + 1].root].entries[loader.dataset[i + 1].file]

\* The file lies directly in an immediate subdirectory of its root.
InCategoryDir(e) == Len(e.dir) = 1

ImageFiles(root) == {i \in 1..Len(fs[root].entries) :
                       fs[root].entries[i].suffix \in {".png", ".jpg"}}
CategoryLayout(root) == \A i \in ImageFiles(root) : InCategoryDir(fs[root].entries[i])

\* C2 as stated: a loader over a data source with N image files under K
\* category subdirectories has __len__ = N and labels in [0, K).
C2_LenAndLabels ==
    (loader.built /\ CategoryLayout(loader.data_source)) =>
        /\ __len__(loader) = Cardinality(ImageFiles(loader.data_source))
        /\ (ret.op = "__getitem__" /\ ret.res.kind = "ok") =>
              /\ ret.res.val[1][2] >= 0
              /\ ret.res.val[1][2] < Len(fs[loader.data_source].subdirs)

\* The names are in strictly ascending order (so no name twice).
Ascending(s) == \A i \in 1..(Len(s) - 1) : Rank(s[i]) < Rank(s[i + 1])

\* C11 as stated: class_names is the immediate subdirectory names of the
\* data source, each once, in ascending order, and the annotation returned
\* for an index i in [0, N) is (i, position in class_names of the parent
\* directory name of sample i's file).
C11_CatalogOfDataSource ==
    loader.built =>
        /\ Ascending(loader.class_names)
        /\ Range(loader.class_names) = Range(fs[loader.data_source].subdirs)
        /\ (ret.op = "__getitem__" /\ ret.res.kind = "ok"
            /\ ret.arg[1] >= 0 /\ ret.arg[1] < __len__(loader)) =>
              /\ ret.res.val[1][1] = ret.arg[1]
              /\ ret.res.val[1][2] \in 0..(Len(loader.class_names) - 1)
              /\ loader.class_names[ret.res.val[1][2] + 1]
                    = FileOfSample(ret.arg[1]).dir[Len(FileOfSample(ret.arg[1]).dir)]

\* C12 as stated: the samples are the image files below the root given to
\* the constructor, in listing order, and the class names the
\* subdirectories of that root.
C12_SamplesOfOwnRoot ==
    loader.built =>
        /\ Len(loader.dataset) = Cardinality(ImageFiles(loader.data_source))
        /\ \A i \in 1..Len(loader.dataset) :
              /\ loader.dataset[i].root = loader.data_source
              /\ loader.dataset[i].file \in ImageFiles(loader.data_source)
        /\ Range(loader.class_names) = Range(fs[loader.data_source].subdirs)

\* C14: a __len__ or __getitem__ call, returning or raising, leaves the
\* loader as it was; the loader is at all times as the constructor built
\* it, and what __getitem__(i) gives is what it gives on the loader as
\* built (the same for the same i every time).
C14_LoaderReadOnly ==
    /\ [][(loader.built /\ ret'.op \in {"__len__", "__getitem__"}) =>
             (loader'.dataset = loader.dataset /\ loader'.class_names = loader.class_names)]_vars
    /\ [](loader.built =>
             /\ loader = ClassificationDataLoader(loader.data_source)
             /\ ret.op = "__getitem__" =>
                   ret.res = __getitem__(ClassificationDataLoader(loader.data_source), ret.arg[1]))

\* C14 witness: on a loader of two samples a call has failed on the image.
C14_Witness ==
    /\ loader.built
    /\ Len(loader.dataset) = 2
    /\ ret.op = "__getitem__"
    /\ ret.res.kind = "TypeError"

\* C17 as stated: __getitem__ raises IndexError for every index outside
\* [0, N), negative ones included, and the index of every returned
\* annotation lies in [0, N).
C17_OnlyIndicesInRange ==
    ret.op = "__getitem__" =>
        /\ (ret.arg[1] < 0 \/ ret.arg[1] >= __len__(loader)) => ret.res.kind = "IndexError"
        /\ ret.res.kind = "ok" => ret.res.val[1][1] \in 0..(__len__(loader) - 1)

(***************************************************************************)
(* Claims about the metric (SpecMetric)                                    *)
(***************************************************************************)
AllSingle == \A i \in 1..Len(mlog) : mlog[i].size = 1
CorrectUpdates == Cardinality({i \in 1..Len(mlog) : mlog[i].hits = 1})
TotalHits == SumSeq([i \in 1..Len(mlog) |-> mlog[i].hits])

\* C3: after M >= 1 update() calls with one prediction each, C of them
\* correct, avg_value is C/M.
C3_AverageIsCorrectOverUpdates ==
    (ret.op = "avg_value" /\ Len(mlog) >= 1 /\ AllSingle) =>
        /\ ret.res.kind = "ok"
        /\ ret.res.val[2][2] > 0
        /\ ret.res.val[2][1] * Len(mlog) = CorrectUpdates * ret.res.val[2][2]

\* C3 witness: after a reset, three correct updates out of four read as 3/4.
C3_Witness ==
    /\ ret.op = "avg_value"
    /\ cleared >= 0
    /\ AllSingle
    /\ Len(mlog) = 4
    /\ CorrectUpdates = 3
    /\ ret.res.kind = "ok"
    /\ ret.res.val[2][1] * 4 = 3 * ret.res.val[2][2]

\* C4: a read of avg_value while nothing is recorded gives no number (it
\* raises) and leaves the metric as it was.
C4_EmptyAverageFails ==
    [][(ret'.op = "avg_value" /\ matches = <<>>) =>
          (ret'.res.kind # "ok" /\ matches' = matches /\ mlog' = mlog /\ cleared' = cleared)]_vars

\* C4 witness: avg_value was read right after a reset that discarded entries.
C4_Witness ==
    /\ ret.op = "avg_value"
    /\ matches = <<>>
    /\ cleared >= 1
    /\ ret.res.kind = "ZeroDivisionError"

\* C5: reset() leaves nothing recorded, and after it the recorded entries,
\* avg_value and value are those of the update() calls made since.
C5_ResetClears ==
    /\ ret.op = "reset" => Len(matches) = 0
    /\ cleared >= 0 =>
          /\ Len(matches) = Len(mlog)
          /\ \A i \in 1..Len(mlog) :
                /\ Len(matches[i]) = mlog[i].size
                /\ Cardinality({b \in 1..Len(matches[i]) : matches[i][b]}) = mlog[i].hits
          /\ (ret.op = "avg_value" /\ ret.res.kind = "ok") =>
                ret.res.val[2] = <<TotalHits, Len(mlog)>>
          /\ (ret.op = "value" /\ Len(mlog) >= 1) =>
                /\ ret.res.kind = "ok"
                /\ Len(ret.res.val[2]) = mlog[Len(mlog)].size
          /\ (ret.op = "value" /\ Len(mlog) = 0) => ret.res.kind = "IndexError"

\* C5 witness: a reset discarded two predictions, one update followed and
\* the average was read.
C5_Witness ==
    /\ cleared >= 2
    /\ Len(mlog) = 1
    /\ ret.op = "avg_value"
    /\ ret.res.kind = "ok"

\* C13: after an update(), value is the entry of that latest update() alone
\* (one flag per prediction of it, as many true as it had correct
\* predictions), whatever came before; a read of value or avg_value leaves
\* the recorded sequence as it was.
C13_ValueIsLatestUpdate ==
    /\ []((ret.op = "value" /\ Len(mlog) >= 1) =>
             /\ ret.res.kind = "ok"
             /\ ret.res.val[2] = matches[Len(matches)]
             /\ Len(ret.res.val[2]) = mlog[Len(mlog)].size
             /\ Cardinality({b \in 1..Len(ret.res.val[2]) : ret.res.val[2][b]})
                   = mlog[Len(mlog)].hits)
    /\ [][ret'.op \in {"value", "avg_value"} => matches' = matches]_vars

\* C13 witness: of three updates the first was correct and the last was
\* not, and value reads as one false flag.
C13_Witness ==
    /\ ret.op = "value"
    /\ Len(mlog) = 3
    /\ mlog[1].hits = 1
    /\ mlog[3].size = 1
    /\ mlog[3].hits = 0
    /\ ret.res.kind = "ok"
    /\ ret.res.val[2] = <<FALSE>>

\* C15: get_attributes() gives direction higher-better and type accuracy
\* under the name accuracy in every state of the metric, and leaves the
\* metric as it was.
C15_AttributesStatic ==
    /\ [](ret.op = "get_attributes" =>
             ret.res = [kind |-> "ok", val |-> <<"accuracy", "higher-better", "accuracy">>])
    /\ [][ret'.op = "get_attributes" =>
             (matches' = matches /\ mlog' = mlog /\ cleared' = cleared)]_vars

\* C15 witness: the attributes were read with nothing recorded, right
\* after a reset that discarded entries.
C15_Witness ==
    /\ ret.op = "get_attributes"
    /\ matches = <<>>
    /\ cleared >= 1
    /\ ret.res.kind = "ok"

\* C18 as stated: whenever avg_value is defined it lies in [0, 1].
C18_AverageWithinUnit ==
    (ret.op = "avg_value" /\ ret.res.kind = "ok") =>
        /\ ret.res.val[2][2] > 0
        /\ ret.res.val[2][1] >= 0
        /\ ret.res.val[2][1] <= ret.res.val[2][2]

(***************************************************************************)
(* Claims about the optimization cells (SpecDriver)                        *)
(***************************************************************************)
\* C6: the quantization steps leave original_model as it was loaded: it is
\* an artifact of its own, its content stays the loaded content, and that
\* content is what step 9 evaluates.
C6_BaselineUnchanged ==
    /\ refs.original_model # 0 =>
          /\ heap[refs.original_model] = LoadedContent
          /\ refs.original_model # refs.model
          /\ refs.original_model # refs.compressed_model
    /\ pass.name = "original_metric_results" => pass.content = LoadedContent

\* C6 witness: the loaded artifact itself was quantized, compressed and
\* saved, and the original has been evaluated.
C6_Witness ==
    /\ pass.name = "original_metric_results"
    /\ heap[refs.model] = CompressedContent
    /\ out.saved = CompressedContent

\* The order of steps the claim names.
ClaimedOrder == <<"load_model", "deepcopy", "data_loader", "metric", "engine",
                  "pipeline", "run", "compress", "save", "evaluate_original",
                  "print_original", "evaluate_quantized", "print_quantized">>

\* C7: the steps completed so far are always an initial part of the one
\* order, each once; the step that runs next is the one after the last
\* completed; a run that ends without failure has completed them all.
C7_LinearOrder ==
    /\ Len(trace) <= Len(ClaimedOrder)
    /\ \A i \in 1..Len(trace) : trace[i] = ClaimedOrder[i]
    /\ pc \notin {"done", "failed"} => pc = ClaimedOrder[Len(trace) + 1]
    /\ pc = "done" => trace = ClaimedOrder

\* C7 witness: a run that completed.
C7_Witness ==
    /\ pc = "done"
    /\ Len(trace) = 13

\* C8: once pipeline.run has failed, the run has ended with that very
\* failure, run was called once, and nothing was compressed, saved or
\* reported.
C8_RunFailureEndsRun ==
    out.run_raised # "" =>
        /\ pc = "failed"
        /\ refs.error = out.run_raised
        /\ out.run_calls = 1
        /\ out.saved = ""
        /\ refs.compressed_model = 0
        /\ refs.compressed_model_xml = ""
        /\ \A i \in 1..Len(out.printed) : out.printed[i] # "quantized_path"
        /\ \A i \in 1..Len(trace) : trace[i] \notin {"run", "compress", "save"}
        /\ \A i \in 1..Len(heap) : heap[i] # CompressedContent

\* C8 witness: the algorithm failed after reading two calibration samples.
C8_Witness ==
    /\ out.run_raised = "RuntimeError"
    /\ __len__(loader) = 2
    /\ pc = "failed"

\* A result that is no result set: None or an empty dict.
NoResultSet(r) == r.kind = "None" \/ (r.kind = "dict" /\ r.items = <<>>)
Printed(line) == \E i \in 1..Len(out.printed) : out.printed[i] = line
Completed(step) == \E i \in 1..Len(trace) : trace[i] = step

\* C9: an evaluation that yields no result set has its print skipped and
\* the run goes on; the other model's accuracy is still printed.
C9_MissingResultsSkipPrint ==
    /\ (NoResultSet(refs.original_metric_results) /\ pc # "print_original") =>
          /\ Completed("print_original")
          /\ ~Printed("accuracy_original")
    /\ (NoResultSet(refs.quantized_metric_results) /\ pc # "print_quantized") =>
          /\ pc = "done"
          /\ ~Printed("accuracy_quantized")
    /\ (pc = "done" /\ ~NoResultSet(refs.quantized_metric_results)) =>
          Printed("accuracy_quantized")
    /\ (pc = "done" /\ ~NoResultSet(refs.original_metric_results)) =>
          Printed("accuracy_original")

\* C9 witness: the original model's evaluation gave None, and the run ended
\* with the quantized model's accuracy printed.
C9_Witness ==
    /\ pc = "done"
    /\ refs.original_metric_results.kind = "None"
    /\ Printed("accuracy_quantized")
    /\ ~Printed("accuracy_original")

\* The correct predictions and the number of updates of the latest pass.
OwnAverage == <<SumSeq([i \in 1..Len(pass.log) |-> pass.log[i].hits]), Len(pass.log)>>

\* C10: the accuracy an evaluation pass reports is that of the updates of
\* this pass alone.
C10_PassReportsOwnUpdates ==
    /\ (pass.name = "original_metric_results"
        /\ ~NoResultSet(refs.original_metric_results)
        /\ refs.original_metric_results.kind = "dict") =>
          refs.original_metric_results.items[2] = OwnAverage
    /\ (pass.name = "quantized_metric_results"
        /\ ~NoResultSet(refs.quantized_metric_results)
        /\ refs.quantized_metric_results.kind = "dict") =>
          refs.quantized_metric_results.items[2] = OwnAverage

\* C10 witness: the quantized model's pass began by discarding the entries
\* of the original model's pass and reports another accuracy than that one.
C10_Witness ==
    /\ pass.name = "quantized_metric_results"
    /\ cleared >= 1
    /\ refs.original_metric_results.kind = "dict"
    /\ refs.quantized_metric_results.kind = "dict"
    /\ refs.original_metric_results.items # <<>>
    /\ refs.quantized_metric_results.items # <<>>
    /\ refs.original_metric_results.items[2] # refs.quantized_metric_results.items[2]

(***************************************************************************)
(* Claims about the inference and benchmark cells (SpecCells)              *)
(***************************************************************************)
MultiCells == {"benchmark_multi_original", "benchmark_multi_quantized",
               "benchmark_ir_multi_original", "benchmark_ir_multi_quantized"}
ModelOfCell(c) == IF c \in {"benchmark_multi_original", "benchmark_ir_multi_original"}
                  THEN "model_xml" ELSE "compressed_model_xml"
NoGpuMessages == {"A supported integrated GPU is not available on this system.",
                  "An integrated GPU is not available on this system."}
CellIndex(c) == CHOOSE k \in 1..Len(Cells) : Cells[k] = c
CellDone(c) == cell = "done" \/ (cell \in Range(Cells) /\ CellIndex(cell) > CellIndex(c))
ShownBy(c) == {i \in 1..Len(shown) : shown[i].cell = c}

\* C16: a benchmark on MULTI:CPU,GPU has run only if "GPU" is among the
\* available devices; if it is, each of the multi-device cells that has run
\* has benchmarked its model (original or quantized) on MULTI:CPU,GPU; if it
\* is not, each has run no benchmark and printed the message that no
\* integrated GPU is available.
C16_MultiBenchmarkOnlyWithGpu ==
    /\ \A i \in 1..Len(shown) :
          (shown[i].kind = "benchmark" /\ shown[i].device = "MULTI:CPU,GPU") =>
              ("GPU" \in devices /\ shown[i].cell \in MultiCells)
    /\ \A c \in MultiCells : CellDone(c) =>
          IF "GPU" \in devices
          THEN \E i \in ShownBy(c) : /\ shown[i].kind = "benchmark"
                                     /\ shown[i].device = "MULTI:CPU,GPU"
                                     /\ shown[i].model = ModelOfCell(c)
          ELSE /\ \A i \in ShownBy(c) : shown[i].kind # "benchmark"
               /\ \E i \in ShownBy(c) : /\ shown[i].kind = "print"
                                        /\ shown[i].text \in NoGpuMessages

\* C16 witness: with two GPUs listed as GPU.0 and GPU.1 (no device named
\* GPU) all cells have run.
C16_Witness ==
    /\ cell = "done"
    /\ "GPU.0" \in devices
    /\ \E i \in 1..Len(shown) : shown[i].text \in NoGpuMessages

\* C19 as stated: when the run-inference cell reads the image, the image
\* is at the path read, and a download is made only when the image is not
\* yet at that path.
C19_DownloadGuard ==
    \A i \in 1..Len(io) :
        /\ io[i].kind = "read" => io[i].present
        /\ io[i].kind = "download" => ~io[i].present

====
